---- MODULE Spec2Model ----
(***************************************************************************)
(* A model of the vase designer: the parameter store (vaseStore.ts), the   *)
(* geometry builder of the Vase component (Vase.tsx) with its waveform     *)
(* library, formula compilation and tab extrusion, and the import handler  *)
(* of the control panel (ControlPanel.tsx).                                *)
(*                                                                         *)
(* JavaScript numbers are IEEE-754 binary floating point.  The model keeps *)
(* the format and shrinks its width: a number is an integer count of       *)
(* 2^-FracBits, and every arithmetic result is rounded to Precision        *)
(* significant bits, ties to even, as the hardware rounds to 53.           *)
(***************************************************************************)
EXTENDS Integers, Sequences, FiniteSets, TLC

\* ------------------------------------------------------------ numbers

FracBits == 4
Precision == 6

\* The number 1.0.
One == 2 ^ FracBits

Abs(n) == IF n < 0 THEN -n ELSE n

Sign(n) == IF n < 0 THEN -1 ELSE 1

RECURSIVE BitLen(_)
BitLen(a) == IF a = 0 THEN 0 ELSE 1 + BitLen(a \div 2)

\* The spacing of representable numbers at magnitude a.
Ulp(a) == IF a < 2 ^ Precision THEN 1 ELSE 2 ^ (BitLen(a) - Precision)

\* num / den (both >= 0, den > 0) rounded to an integer, ties to even.
RoundHalfEven(num, den) ==
    LET lo == num \div den
        twice == 2 * (num - lo * den)
    IN  IF twice < den THEN lo
        ELSE IF twice > den THEN lo + 1
        ELSE IF lo % 2 = 0 THEN lo ELSE lo + 1

\* The representable number nearest to the rational num / den (den > 0).
FlQ(num, den) ==
    LET q == Ulp(Abs(num) \div den)
    IN  Sign(num) * q * RoundHalfEven(Abs(num), den * q)

Fl(n) == FlQ(n, 1)

IsFloat(n) == Fl(n) = n

FAdd(a, b) == Fl(a + b)

FSub(a, b) == Fl(a - b)

FMul(a, b) == FlQ(a * b, One)

\* a / b for b # 0.
FDiv(a, b) == FlQ(Sign(b) * a * One, Abs(b))

\* a % b of JavaScript for b > 0: exact, with the sign of the dividend.
FMod(a, b) == IF a >= 0 THEN a % b ELSE -((-a) % b)

\* Math.floor.
Floor(a) == (a \div One) * One

\* Math.PI, the representable number nearest to pi.
MathPI == 50

Two == 2 * One

Half == One \div 2

\* 2 * Math.PI.
TwoPi == FMul(Two, MathPI)

\* The position of a representable magnitude among the representable
\* magnitudes, counted from 1.
FloatIndex(a) ==
    IF a < 2 ^ Precision THEN a + 1
    ELSE 2 ^ Precision + 2 ^ (Precision - 1) * (BitLen(a) - Precision - 1)
         + (a \div Ulp(a) - 2 ^ (Precision - 1)) + 1

\* Math.sin and Math.cos at every representable magnitude below 128.0,
\* correctly rounded.
SinTable ==
    << 0, 1, 2, 3, 4, 5, 6, 7, 8, 9, 9, 10, 11, 12, 12, 13, 13, 14, 14, 15,
      15, 15, 16, 16, 16, 16, 16, 16, 16, 16, 15, 15, 15, 14, 14, 13, 12, 12,
      11, 10, 10, 9, 8, 7, 6, 5, 4, 3, 2, 1, 0, -1, -2, -3, -4, -5, -6, -7,
      -7, -8, -9, -10, -11, -11, -12, -13, -14, -15, -16, -16, -16, -16, -15,
      -15, -14, -13, -11, -10, -8, -6, -4, -3, -1, 1, 3, 5, 7, 9, 11, 12, 13,
      14, 15, 16, 16, 16, 16, 15, 13, 10, 7, 3, -1, -5, -9, -12, -14, -16,
      -16, -15, -14, -12, -9, -5, -1, 3, 7, 10, 13, 15, 16, 16, 15, 13, 10,
      7, 3, -1, -5, -11, -15, -16, -12, -5, 2, 10, 15, 16, 13, 8, 0, -8, -14,
      -16, -14, -9, -2, 6, 12, 16, 15, 11, 4, -4, -11, -15, -16, -13, -6, 1,
      9, 16, 8, -7, -16, -10, 5, 15, 12, -3, -15, -13, 0, 14, 14, 2, -12,
      -15, -4, 11, 16, 6, -9, -16, -8, 7, 16, 10, -5, -15, -12, 3, 15, 0,
      -14, 12, 4, -16, 9, 8, -16, 5, 12, -15, 1, 14, -12, -4, 16, -9, -8, 16,
      -5, -12, 15, -1, -14, 13, 4, -16, 9, 8, -16, 5 >>

CosTable ==
    << 16, 16, 16, 16, 16, 15, 15, 14, 14, 14, 13, 12, 12, 11, 10, 9, 9, 8, 7,
      6, 5, 4, 3, 2, 1, 0, -1, -2, -3, -4, -5, -6, -7, -8, -8, -9, -10, -11,
      -12, -12, -13, -13, -14, -14, -15, -15, -15, -16, -16, -16, -16, -16,
      -16, -16, -16, -15, -15, -15, -14, -14, -13, -13, -12, -11, -10, -9,
      -7, -5, -3, -1, 1, 3, 5, 6, 8, 10, 11, 13, 14, 15, 15, 16, 16, 16, 16,
      15, 14, 13, 12, 11, 9, 7, 6, 4, 2, 0, -2, -6, -10, -12, -15, -16, -16,
      -15, -13, -11, -8, -4, 0, 4, 8, 11, 14, 15, 16, 16, 15, 12, 10, 6, 2,
      -2, -6, -9, -12, -14, -16, -16, -15, -11, -4, 4, 11, 15, 16, 13, 7, -1,
      -9, -14, -16, -14, -9, -1, 7, 13, 16, 15, 10, 3, -5, -11, -15, -16,
      -12, -5, 2, 10, 15, 16, 13, 0, -14, -14, -2, 12, 15, 4, -11, -16, -6,
      9, 16, 8, -7, -16, -10, 5, 15, 12, -3, -15, -13, 0, 14, 14, 2, -12,
      -15, -4, 11, 16, 6, -16, 7, 10, -15, 3, 13, -14, -2, 15, -11, -6, 16,
      -7, -10, 16, -3, -13, 14, 2, -15, 11, 6, -16, 7, 10, -16, 3, 13, -14,
      -1, 15 >>

MathSin(x) == Sign(x) * SinTable[FloatIndex(Abs(x))]

MathCos(x) == CosTable[FloatIndex(Abs(x))]

\* ------------------------------------------------------------ waveforms

WaveTypes == {"sine", "square", "triangle", "sawtooth"}

\* Normalize angle to [0, 2 pi).
NormalizeAngle(x) == FMod(FAdd(FMod(x, TwoPi), TwoPi), TwoPi)

SquareWave(x) == IF NormalizeAngle(x) < MathPI THEN One ELSE -One

TriangleWave(x) ==
    LET t == NormalizeAngle(x)
        p == FDiv(t, TwoPi)
    IN  FMul(Two, Abs(FMul(Two, FSub(p, Floor(FAdd(p, Half))))))

SawtoothWave(x) == FSub(FDiv(NormalizeAngle(x), MathPI), One)

getWaveFunction(type, x) ==
    CASE type = "sine" -> MathSin(x)
      [] type = "square" -> SquareWave(x)
      [] type = "triangle" -> TriangleWave(x)
      [] type = "sawtooth" -> SawtoothWave(x)
      [] OTHER -> MathSin(x)

\* ------------------------------------------------------------ formulas

\* The value a JavaScript integer n has as a number.
Num(n) == Fl(n * One)

\* Float32Array storage: a number rounded to the narrower single format.
SinglePrecision == 4

Fround(n) ==
    LET a == Abs(n)
        q == IF a < 2 ^ SinglePrecision THEN 1
             ELSE 2 ^ (BitLen(a) - SinglePrecision)
    IN  Sign(n) * q * RoundHalfEven(a, q)

\* The formula texts a user can type, each a mathjs expression.
FormulaSources ==
    {"r", "y", "r * 2", "y + height", "(r", "topRadius",
     "angle == 0 ? q : r", "r == 1 ? r : q", "y == 0 ? q : y"}

Returned(v) == [threw |-> FALSE, value |-> v]

Thrown == [threw |-> TRUE, value |-> 0]

\* A throw of a function that returns text.
ThrownText == [threw |-> TRUE, value |-> ""]

\* mathjs evaluate(formula, scope) and compile(formula).evaluate(scope):
\* the value, or the throw of a syntax error or an undefined symbol.  A
\* conditional evaluates only the branch it takes.
Evaluate(formula, scope) ==
    CASE formula = "r" -> Returned(scope.r)
      [] formula = "y" -> Returned(scope.y)
      [] formula = "r * 2" -> Returned(FMul(scope.r, Two))
      [] formula = "y + height" -> Returned(FAdd(scope.y, scope.height))
      [] formula = "angle == 0 ? q : r" ->
            IF scope.angle = 0 THEN Thrown ELSE Returned(scope.r)
      [] formula = "r == 1 ? r : q" ->
            IF scope.r = One THEN Returned(scope.r) ELSE Thrown
      [] formula = "y == 0 ? q : y" ->
            IF scope.y = 0 THEN Thrown ELSE Returned(scope.y)
      [] OTHER -> Thrown

\* mathjs compile(formula): throws on a text that does not parse.
Parses(formula) == formula \in FormulaSources \ {"(r"}

\* Test the formula with sample values.
TestScope == [r |-> One, y |-> One, height |-> One, angle |-> One, pi |-> MathPI]

\* compileFormula: the compiled executable (named by the text it was
\* compiled from), or the throw of compile(defaultValue).
compileFormula(formula, defaultValue) ==
    IF ~Evaluate(formula, TestScope).threw
    THEN Returned(formula)
    ELSE IF Parses(defaultValue) THEN Returned(defaultValue) ELSE ThrownText

\* ------------------------------------------------------------ surface

\* An interpolation that runs from y to x.
LerpReversed(x, y, t) == FAdd(FMul(FSub(One, t), y), FMul(t, x))

\* THREE.MathUtils.lerp.
Lerp(x, y, t) == FAdd(FMul(FSub(One, t), x), FMul(t, y))

\* A twist that is full at the bottom and fades towards the top.
TwistFromTop(p, heightFactor) ==
    IF p.twistRate = "linear"
    THEN FMul(FSub(One, heightFactor), Num(p.twistAngle))
    ELSE FMul(FMul(FSub(One, heightFactor), FSub(One, heightFactor)),
              Num(p.twistAngle))

\* Apply twist: the twist amount at a height, in degrees.
TwistAmount(p, heightFactor) ==
    IF p.twistRate = "linear"
    THEN FMul(heightFactor, Num(p.twistAngle))
    ELSE FMul(FMul(heightFactor, heightFactor), Num(p.twistAngle))

\* The values the callback computes before it applies the formulas.
\* noise is the sample noise2D returns at this point.
SurfaceSample(p, u, v, noise) ==
    LET angle == FMul(FMul(u, MathPI), Two)
        heightFactor == v
        baseRadius == Lerp(FDiv(Num(p.bottomDiameter), Two),
                           FDiv(Num(p.topDiameter), Two), heightFactor)
        twistFactor == IF p.twistDirection = "clockwise" THEN One ELSE -One
        twistAmount == TwistAmount(p, heightFactor)
    IN  [angle |-> angle,
         heightFactor |-> heightFactor,
         twistAmount |-> twistAmount,
         radius |->
            FAdd(baseRadius,
                 FMul(Num(p.radialAmplitude),
                      getWaveFunction(p.radialWaveType,
                                      FMul(angle, Num(p.radialFrequency))))),
         verticalOffset |->
            FMul(Num(p.verticalAmplitude),
                 getWaveFunction(p.verticalWaveType,
                                 FMul(FMul(FMul(heightFactor, Num(p.verticalFrequency)),
                                           MathPI), Two))),
         twistedAngle |->
            FAdd(angle,
                 FDiv(FMul(FMul(twistFactor, twistAmount), MathPI), Num(180))),
         noiseOffset |->
            IF p.surfaceNoiseType # "none"
            THEN FMul(noise, Num(p.surfaceNoiseAmount))
            ELSE 0,
         \* (height / 2) * heightFactor
         base |-> FMul(FDiv(Num(p.height), Two), heightFactor),
         halfHeight |-> FDiv(Num(p.height), Two)]

\* The scope handed to both formulas.
Scope(s) ==
    [r |-> s.radius, y |-> s.base, height |-> s.halfHeight,
     angle |-> s.twistedAngle, pi |-> MathPI]

\* The position the try block sets from the two formula values.
FinalPosition(s, radius, verticalDef) ==
    <<FMul(FAdd(radius, s.noiseOffset), MathCos(s.twistedAngle)),
      FAdd(FAdd(s.base, verticalDef), s.verticalOffset),
      FMul(FAdd(radius, s.noiseOffset), MathSin(s.twistedAngle))>>

\* The position the catch block sets: fallback to the basic shape.
FallbackPosition(s, radius) ==
    <<FMul(radius, MathCos(s.twistedAngle)),
      FAdd(s.base, s.verticalOffset),
      FMul(radius, MathSin(s.twistedAngle))>>

\* The callback without its catch block: an evaluation error leaves it.
TryOnly(s, rad, verticalDef) ==
    IF ~rad.threw /\ ~verticalDef.threw
    THEN [threw |-> FALSE, caught |-> FALSE,
          radial |-> FAdd(rad.value, s.noiseOffset),
          value |-> FinalPosition(s, rad.value, verticalDef.value)]
    ELSE [threw |-> TRUE, caught |-> FALSE, radial |-> 0, value |-> <<0, 0, 0>>]

\* try { ... } catch { ... } of the callback, given what the two
\* evaluate calls do: what leaves the callback, whether the catch block ran,
\* the position set, and the distance from the height axis it was set at
\* (the factor of the cosine and the sine).  In the catch block radius is the callback's variable,
\* which the try block has already overwritten when the radius formula
\* returned and the vertical formula threw.
TryCatch(s, rad, verticalDef) ==
    IF ~rad.threw /\ ~verticalDef.threw
    THEN [threw |-> FALSE, caught |-> FALSE,
          radial |-> FAdd(rad.value, s.noiseOffset),
          value |-> FinalPosition(s, rad.value, verticalDef.value)]
    ELSE [threw |-> FALSE, caught |-> TRUE,
          radial |-> IF rad.threw THEN s.radius ELSE rad.value,
          value |-> FallbackPosition(s, IF rad.threw THEN s.radius ELSE rad.value)]

EvaluateBoth(s, radiusCode, verticalCode) ==
    TryCatch(s, Evaluate(radiusCode, Scope(s)), Evaluate(verticalCode, Scope(s)))

\* The callback handed to ParametricGeometry: target.set(x, y, z), or the
\* exception that leaves it.
SurfacePoint(p, radiusCode, verticalCode, u, v, noise) ==
    EvaluateBoth(SurfaceSample(p, u, v, noise), radiusCode, verticalCode)

\* ------------------------------------------------------------ geometry

\* The sequence s followed by f[1], ..., f[n].
RECURSIVE AppendAll(_, _, _, _)
AppendAll(s, f, k, n) ==
    IF k > n THEN s ELSE AppendAll(Append(s, f[k]), f, k + 1, n)

\* The two triangles (a, b, d), (b, c, d) of every grid quad, row by row.
GridIndices(slices, stacks) ==
    LET sliceCount == slices + 1
        quad(q) ==
            LET i == (q - 1) \div slices
                j == (q - 1) % slices
                a == i * sliceCount + j
                b == i * sliceCount + j + 1
                c == (i + 1) * sliceCount + j + 1
                d == (i + 1) * sliceCount + j
            IN  <<a, b, d, b, c, d>>
    IN  [n \in 1..(6 * slices * stacks) |-> quad((n - 1) \div 6 + 1)[((n - 1) % 6) + 1]]

\* The buffers ParametricGeometry builds from what the callback did at each
\* vertex: positions stored as single floats, and the grid's indices.  An
\* exception of the callback leaves the constructor.  caught counts the
\* vertices whose evaluation error the callback caught and logged; normals
\* counts the computeVertexNormals calls on the buffer and normalsOf holds
\* the vertex and index counts the latest one ran over.
GridGeometry(slices, stacks, points) ==
    IF \E k \in DOMAIN points : points[k].threw
    THEN [threw |-> TRUE, position |-> <<>>, index |-> <<>>, hasIndex |-> FALSE,
          normals |-> 0, normalsOf |-> <<0, 0>>, caught |-> 0]
    ELSE [threw |-> FALSE,
          hasIndex |-> TRUE,
          normalsOf |-> <<0, 0>>,
          caught |-> Cardinality({k \in DOMAIN points : points[k].caught}),
          position |-> [k \in DOMAIN points |->
                          <<Fround(points[k].value[1]),
                            Fround(points[k].value[2]),
                            Fround(points[k].value[3])>>],
          index |-> GridIndices(slices, stacks),
          normals |-> 0]

\* new ParametricGeometry(callback, radialSegments, verticalSegments): the
\* callback is called for v = i / stacks, u = j / slices, row by row.
\* noiseField[k] is the sample noise2D returns at vertex k.
ParametricGeometry(p, radiusCode, verticalCode, noiseField) ==
    GridGeometry(p.radialSegments, p.verticalSegments,
        [k \in 1..((p.radialSegments + 1) * (p.verticalSegments + 1)) |->
            SurfacePoint(p, radiusCode, verticalCode,
                         FDiv(Num((k - 1) % (p.radialSegments + 1)),
                              Num(p.radialSegments)),
                         FDiv(Num((k - 1) \div (p.radialSegments + 1)),
                              Num(p.verticalSegments)),
                         noiseField[k])])

\* NaN, the value of 0 / 0 and of every operation on it: a number apart from
\* all the others.
NotANumber == -(2 ^ 20)

\* new ParametricGeometry(callback, 0, verticalSegments): one vertex per
\* row, at u = 0 / 0, and no quad.  The angle is NaN and with it the cosine
\* and the sine; the height of a vertex does not depend on u.
ParametricGeometryNoSlices(p, radiusCode, verticalCode) ==
    [threw |-> FALSE,
     hasIndex |-> TRUE,
     normalsOf |-> <<0, 0>>,
     caught |-> 0,
     position |-> [k \in 1..(p.verticalSegments + 1) |->
                     <<NotANumber,
                       Fround(SurfacePoint(p, radiusCode, verticalCode, 0,
                                           FDiv(Num(k - 1), Num(p.verticalSegments)),
                                           0).value[2]),
                       NotANumber>>],
     index |-> GridIndices(0, p.verticalSegments),
     normals |-> 0]

\* geometry.computeVertexNormals().
computeVertexNormals(g) ==
    [g EXCEPT !.normals = g.normals + 1,
              !.normalsOf = <<Len(g.position), Len(g.index)>>]

\* An extruded ring that leaves out the seam vertex.
OpenRing(originalPositions, from, verticesPerLayer, dy) ==
    [i \in 1..(verticesPerLayer - 1) |->
        <<originalPositions[from + i][1],
          Fround(FAdd(originalPositions[from + i][2], dy)),
          originalPositions[from + i][3]>>]

\* The copy of a ring of verticesPerLayer vertices starting at vertex
\* `from` (counted from 0), moved by dy along the height axis.
ExtrudedRing(originalPositions, from, verticesPerLayer, dy) ==
    [i \in 1..verticesPerLayer |->
        <<originalPositions[from + i][1],
          Fround(FAdd(originalPositions[from + i][2], dy)),
          originalPositions[from + i][3]>>]

\* Faces connecting bottom profile to its extrusion: (a, b, c), (c, d, a).
BottomTabFaces(radialSegments, bottomVertexStart) ==
    [n \in 1..(6 * radialSegments) |->
        LET i == (n - 1) \div 6
            a == i
            b == i + 1
            c == bottomVertexStart + i + 1
            d == bottomVertexStart + i
        IN  <<a, b, c, c, d, a>>[((n - 1) % 6) + 1]]

\* Faces connecting top profile to its extrusion: (a, c, b), (c, a, d).
TopTabFaces(radialSegments, topLayerStart, topVertexStart) ==
    [n \in 1..(6 * radialSegments) |->
        LET i == (n - 1) \div 6
            a == topLayerStart + i
            b == topLayerStart + i + 1
            c == topVertexStart + i + 1
            d == topVertexStart + i
        IN  <<a, c, b, c, a, d>>[((n - 1) % 6) + 1]]

\* Add bottom tab if needed.
AddBottomTab(p, original, g) ==
    IF p.bottomTabHeight > 0
    THEN LET verticesPerLayer == p.radialSegments + 1
             bottomVertexStart == Len(g.position)
         IN  [g EXCEPT
               !.position = g.position \o
                   ExtrudedRing(original.position, 0, verticesPerLayer,
                                -Num(p.bottomTabHeight)),
               !.index = g.index \o
                   BottomTabFaces(p.radialSegments, bottomVertexStart)]
    ELSE g

\* A top tab copied from the last ring of the buffer under construction.
AddTopTabFromLastRing(p, original, g) ==
    IF p.topTabHeight > 0
    THEN LET verticesPerLayer == p.radialSegments + 1
             topLayerStart == Len(g.position) - verticesPerLayer
             topVertexStart == Len(g.position)
         IN  [g EXCEPT
               !.position = g.position \o
                   ExtrudedRing(g.position, topLayerStart, verticesPerLayer,
                                Num(p.topTabHeight)),
               !.index = g.index \o
                   TopTabFaces(p.radialSegments, topLayerStart, topVertexStart)]
    ELSE g

\* Add top tab if needed.
AddTopTab(p, original, g) ==
    IF p.topTabHeight > 0
    THEN LET verticesPerLayer == p.radialSegments + 1
             topLayerStart == verticesPerLayer * p.verticalSegments
             topVertexStart == Len(g.position)
         IN  [g EXCEPT
               !.position = g.position \o
                   ExtrudedRing(original.position, topLayerStart, verticesPerLayer,
                                Num(p.topTabHeight)),
               !.index = g.index \o
                   TopTabFaces(p.radialSegments, topLayerStart, topVertexStart)]
    ELSE g

\* Add tabs by extruding top and bottom profiles: a new geometry holding a
\* copy of all original vertices and indices, then the tabs.
ExtrudeTabs(p, original) ==
    computeVertexNormals(
        AddTopTab(p, original,
            AddBottomTab(p, original,
                [threw |-> FALSE,
                 hasIndex |-> TRUE,
                 normalsOf |-> <<0, 0>>,
                 caught |-> original.caught,
                 position |-> AppendAll(<<>>, original.position, 1,
                                        Len(original.position)),
                 index |-> AppendAll(<<>>, original.index, 1, Len(original.index)),
                 normals |-> 0])))

\* What the geometry useMemo callback does after the base geometry is built.
FinishGeometry(p, parametricGeometry) ==
    IF parametricGeometry.threw THEN parametricGeometry
    ELSE IF p.topTabHeight > 0 \/ p.bottomTabHeight > 0
    THEN (IF ~parametricGeometry.hasIndex
          THEN parametricGeometry
          ELSE ExtrudeTabs(p, parametricGeometry))
    ELSE computeVertexNormals(parametricGeometry)

\* ------------------------------------------------------------ parameters

defaultParameters ==
    [height |-> 120,
     topDiameter |-> 100,
     bottomDiameter |-> 120,
     topTabHeight |-> 0,
     bottomTabHeight |-> 0,
     radialWaveType |-> "sine",
     radialFrequency |-> 6,
     radialAmplitude |-> 3,
     verticalWaveType |-> "sine",
     verticalFrequency |-> 1,
     verticalAmplitude |-> 0,
     twistAngle |-> 0,
     twistRate |-> "linear",
     twistDirection |-> "clockwise",
     surfaceNoiseType |-> "none",
     surfaceNoiseScale |-> 1,
     surfaceNoiseAmount |-> 0,
     radialSegments |-> 128,
     verticalSegments |-> 128,
     radiusFormula |-> "r",
     verticalDeformationFormula |-> "y"]

\* ------------------------------------------------------------ values and JSON

\* The values a field of the store's parameters object can hold.
Number(n) == [type |-> "number", num |-> n, str |-> ""]

String(t) == [type |-> "string", num |-> 0, str |-> t]

JsNull == [type |-> "null", num |-> 0, str |-> ""]

\* The number Infinity.
Infinity == [type |-> "number", num |-> 0, str |-> "Infinity"]

IsFinite(v) == v.type = "number" /\ v.str = ""

VaseKeys == DOMAIN defaultParameters

StringKeys ==
    {"radialWaveType", "verticalWaveType", "twistRate", "twistDirection",
     "surfaceNoiseType", "radiusFormula", "verticalDeformationFormula"}

\* { ...defaultParameters } as the store holds it.
DefaultObject ==
    [k \in VaseKeys |->
        IF k \in StringKeys THEN String(defaultParameters[k])
        ELSE Number(defaultParameters[k])]

\* The literals of a JSON text.
NumeralLit(n) == [lit |-> "numeral", num |-> n, str |-> ""]

\* A numeral beyond the range of a double, such as 1e999.
HugeLit == [lit |-> "numeral", num |-> 0, str |-> "1e999"]

StringLit(t) == [lit |-> "string", num |-> 0, str |-> t]

NullLit == [lit |-> "null", num |-> 0, str |-> ""]

\* JSON.stringify of one value: a number that is not finite is written null.
LiteralOf(v) ==
    IF v.type = "number" THEN (IF IsFinite(v) THEN NumeralLit(v.num) ELSE NullLit)
    ELSE IF v.type = "string" THEN StringLit(v.str)
    ELSE NullLit

\* JSON.parse of one literal: a numeral beyond the range of a double is Infinity.
ValueOf(l) ==
    IF l.lit = "numeral" THEN (IF l.str = "" THEN Number(l.num) ELSE Infinity)
    ELSE IF l.lit = "string" THEN String(l.str)
    ELSE JsNull

\* A JSON text: its syntax ("object", "array", "string", "number", "null", or
\* "invalid" for a text that is no JSON) and, by key, the literals of its
\* members (of an array its elements, of a string its characters).
JsonText(syntax, members) == [syntax |-> syntax, members |-> members]

\* JSON.stringify(object, null, 2).
JSONstringify(object) ==
    JsonText("object", [k \in DOMAIN object |-> LiteralOf(object[k])])

\* JSON.parse(text): the throw of a SyntaxError, or the value, given by its
\* own enumerable properties (what an object spread copies from it).
JSONparse(text) ==
    IF text.syntax = "invalid"
    THEN [threw |-> TRUE, isNull |-> FALSE, props |-> <<>>]
    ELSE [threw |-> FALSE,
          isNull |-> text.syntax = "null",
          props |-> IF text.syntax \in {"object", "array", "string"}
                    THEN [k \in DOMAIN text.members |-> ValueOf(text.members[k])]
                    ELSE <<>>]

\* { ...a, ...b }
Spread(a, b) ==
    [k \in DOMAIN a \cup DOMAIN b |-> IF k \in DOMAIN b THEN b[k] ELSE a[k]]

\* ------------------------------------------------------------ store operations

\* A setParameter that starts from the defaults instead of the store.
setOverDefaults(params, key, value) ==
    [k \in VaseKeys \cup {key} |->
        IF k = key THEN value
        ELSE IF k \in StringKeys THEN String(defaultParameters[k])
        ELSE Number(defaultParameters[k])]

\* setParameter: { ...state.parameters, [key]: value }
setParameter(params, key, value) ==
    [k \in DOMAIN params \cup {key} |-> IF k = key THEN value ELSE params[k]]

\* resetParameters: { ...defaultParameters }
resetParameters == DefaultObject

\* A draw over a range one too wide.
randomBeyondRange(min, max, random) == (random * (max - min + 2)) \div 1000 + min

\* Math.floor(Math.random() * (max - min + 1)) + min, for Math.random()
\* returning random / 1000.
randomInRange(min, max, random) == (random * (max - min + 1)) \div 1000 + min

\* randomizeParameters, for the eight values Math.random() returns.
randomizeParameters(params, random) ==
    Spread(params,
        [height |-> Number(randomInRange(100, 150, random[1])),
         topDiameter |-> Number(randomInRange(40, 120, random[2])),
         bottomDiameter |-> Number(randomInRange(60, 140, random[3])),
         radialFrequency |-> Number(randomInRange(3, 8, random[4])),
         radialAmplitude |-> Number(randomInRange(5, 20, random[5])),
         verticalFrequency |-> Number(randomInRange(2, 6, random[6])),
         verticalAmplitude |-> Number(randomInRange(3, 15, random[7])),
         twistAngle |-> Number(randomInRange(0, 360, random[8]))])

\* exportConfiguration().json
exportConfiguration(params) == JSONstringify(params)

\* An import that fills missing fields from the store instead of the defaults.
ImportOverStore(params, parsed) ==
    IF parsed.threw
    THEN [parameters |-> params, threw |-> FALSE]
    ELSE [parameters |-> Spread(params, parsed.props), threw |-> FALSE]

\* An import that resets the store when the text does not decode.
ImportOrReset(params, parsed) ==
    IF parsed.threw
    THEN [parameters |-> DefaultObject, threw |-> FALSE]
    ELSE [parameters |-> Spread(DefaultObject, parsed.props), threw |-> FALSE]

\* What importConfiguration does once JSON.parse has returned or thrown: the
\* parameters after the call, and whether the call raised to its caller.
ImportParsed(params, parsed) ==
    IF parsed.threw
    THEN [parameters |-> params, threw |-> FALSE]
    ELSE [parameters |-> Spread(DefaultObject, parsed.props), threw |-> FALSE]

\* importConfiguration(config)
importConfiguration(params, config) == ImportParsed(params, JSONparse(config))

\* ------------------------------------------------------------ state

VARIABLES
    waveType,     \* the waveform kind under evaluation
    waveX,        \* its input angle
    wavePc,       \* "input" before the evaluation, "done" after
    waveAt,       \* f(x)
    waveAhead,    \* f(x + 2 * Math.PI)
    genParams,    \* the parameters prop of the Vase component
    genPc,        \* "props": a render is due; "rendered": the render is done
    genPasses,    \* renders so far
    memoRadius,   \* useMemo cell of compiledRadiusFormula: dependency and value
    memoVertical, \* useMemo cell of compiledVerticalFormula
    pass,         \* the latest render: its parameters, geometry, exception
    prevPass,     \* the render before it
    parameters,   \* the store's parameters object
    ops,          \* store operations so far
    lastOp,       \* the latest store operation
    before,       \* the store's parameters before that operation
    importText,   \* the text handed to the latest importConfiguration
    importThrew,  \* whether that call raised to its caller
    generated,    \* the parameters the latest generation pass started with
    ptParams,     \* the parameters of the callback's closure
    ptRow,        \* the grid row ParametricGeometry is filling
    ptCol,        \* the next column of that row
    ptCall,       \* the latest callback call: its values before the formulas
                  \* (sample) and what it did (result)
    ptFirst,      \* the call at column 0 of the row
    bdParams,     \* the parameters of a geometry useMemo run
    bdBase,       \* the base geometry the constructor handed to it
    bdBuilt,      \* the geometry it returned
    bdPc,         \* "base": about to finish the geometry, "built": returned
    cpParameters,     \* the store's parameters object, as the control panel drives it
    cpLocalRadius,    \* localRadiusFormula
    cpLocalVertical,  \* localVerticalFormula
    cpRadiusTimer,    \* debouncedSetRadiusFormula: pending call, time left, argument
    cpVerticalTimer,  \* debouncedSetVerticalFormula
    cpOps,            \* user operations so far
    cpTyped,          \* the text of the latest edit of each formula field, and
                      \* the number of edits of its burst
    cpCalls,          \* setParameter calls of each field since its burst began
    cpKept            \* the formulas a reset or import set while an update was pending

waveVars == <<waveType, waveX, wavePc, waveAt, waveAhead>>

genVars == <<genParams, genPc, genPasses, memoRadius, memoVertical, pass, prevPass>>

storeVars == <<parameters, ops, lastOp, before, importText, importThrew, generated>>

ptVars == <<ptParams, ptRow, ptCol, ptCall, ptFirst>>

bdVars == <<bdParams, bdBase, bdBuilt, bdPc>>

cpVars ==
    <<cpParameters, cpLocalRadius, cpLocalVertical, cpRadiusTimer, cpVerticalTimer,
      cpOps, cpTyped, cpCalls, cpKept>>

vars == <<waveVars, genVars, storeVars, ptVars, bdVars, cpVars>>

\* ------------------------------------------------------------ waveform evaluation

MaxWaveArg == 400

WaveInputs == {x \in -MaxWaveArg..MaxWaveArg : IsFloat(x)}

InitWave ==
    /\ waveType \in WaveTypes
    /\ waveX \in WaveInputs
    /\ wavePc = "input"
    /\ waveAt = 0
    /\ waveAhead = 0

IdleWave ==
    /\ waveType = "sine"
    /\ waveX = 0
    /\ wavePc = "idle"
    /\ waveAt = 0
    /\ waveAhead = 0

EvalWave ==
    /\ wavePc = "input"
    /\ waveAt' = getWaveFunction(waveType, waveX)
    /\ waveAhead' = getWaveFunction(waveType, FAdd(waveX, TwoPi))
    /\ wavePc' = "done"
    /\ UNCHANGED <<waveType, waveX>>

\* ------------------------------------------------------------ the Vase component

MaxPasses == 2

NoiseSeeds == 2

\* The mesh sizes, tab heights, formulas and noise settings a render starts from.
GenInputs ==
    {[defaultParameters EXCEPT
        !.radialSegments = rs, !.verticalSegments = vs,
        !.bottomTabHeight = bt, !.topTabHeight = tt,
        !.radiusFormula = rf, !.verticalDeformationFormula = vf,
        !.surfaceNoiseType = nz[1], !.surfaceNoiseAmount = nz[2]] :
        rs \in {3, 4}, vs \in {1, 2}, bt \in {0, 10}, tt \in {0, 5},
        rf \in {"r", "(r", "angle == 0 ? q : r", "r == 1 ? r : q"},
        vf \in {"y", "(r", "y == 0 ? q : y"},
        nz \in {<<"none", 0>>, <<"simplex", 4>>}}

\* The parameter changes that reach the component between two renders.
GenChanges ==
    {<<"radiusFormula", "r">>, <<"radiusFormula", "r * 2">>,
     <<"radiusFormula", "topRadius">>,
     <<"verticalDeformationFormula", "y">>,
     <<"verticalDeformationFormula", "y + height">>,
     <<"twistAngle", 0>>, <<"twistAngle", 90>>,
     <<"radialWaveType", "sine">>, <<"radialWaveType", "square">>}

\* What noise2D of a fresh createNoise2D() returns at vertex k: any value of
\* [-1, 1], here one of -1, 0, 1 by seed.
NoiseField(seed) == [k \in 1..64 |-> One * (((seed + k) % 3) - 1)]

Seeds(p) == IF p.surfaceNoiseType # "none" THEN 1..NoiseSeeds ELSE {1}

NoGeometry ==
    [threw |-> FALSE, position |-> <<>>, index |-> <<>>, hasIndex |-> FALSE,
     normals |-> 0, normalsOf |-> <<0, 0>>, caught |-> 0]

\* No render yet.
NoPass ==
    [done |-> FALSE, params |-> defaultParameters, parametricGeometry |-> NoGeometry,
     geometry |-> NoGeometry, threw |-> FALSE]

\* A useMemo cell before the first render.
NoMemo == [filled |-> FALSE, dep |-> "", value |-> ThrownText, compiles |-> 0]

InitGen ==
    /\ genParams \in GenInputs
    /\ genPc = "props"
    /\ genPasses = 0
    /\ memoRadius = NoMemo
    /\ memoVertical = NoMemo
    /\ pass = NoPass
    /\ prevPass = NoPass

IdleGen ==
    /\ genParams = defaultParameters
    /\ genPc = "idle"
    /\ genPasses = 0
    /\ memoRadius = NoMemo
    /\ memoVertical = NoMemo
    /\ pass = NoPass
    /\ prevPass = NoPass

\* The geometry useMemo callback, with its outcome: the base geometry it
\* built, the geometry it returned, or the exception that left it.
PassOf(p, parametricGeometry) ==
    [done |-> TRUE, params |-> p, parametricGeometry |-> parametricGeometry,
     geometry |-> FinishGeometry(p, parametricGeometry),
     threw |-> parametricGeometry.threw]

\* A cell that is filled once and never recomputed.
UseStaleFormula(memo, formula, defaultValue) ==
    IF memo.filled
    THEN memo
    ELSE [filled |-> TRUE, dep |-> formula,
          value |-> compileFormula(formula, defaultValue),
          compiles |-> memo.compiles + 1]

\* useMemo(() => compileFormula(formula, defaultValue), [formula]): the cell
\* after this render, recomputed when the dependency changed.  compiles
\* counts the compileFormula calls of the cell.
UseMemoFormula(memo, formula, defaultValue) ==
    IF memo.filled /\ memo.dep = formula
    THEN memo
    ELSE [filled |-> TRUE, dep |-> formula,
          value |-> compileFormula(formula, defaultValue),
          compiles |-> memo.compiles + 1]

\* One render of Vase: both formula cells, then the geometry cell, whose
\* dependency `parameters` is a new object after every store change.
RenderVase ==
    /\ genPc = "props"
    /\ LET radiusCell == UseMemoFormula(memoRadius, genParams.radiusFormula, "r")
           verticalCell ==
               UseMemoFormula(memoVertical, genParams.verticalDeformationFormula, "y")
       IN  /\ memoRadius' = radiusCell
           /\ memoVertical' = verticalCell
           /\ IF radiusCell.value.threw \/ verticalCell.value.threw
              THEN pass' = [done |-> TRUE, params |-> genParams,
                            parametricGeometry |-> NoGeometry,
                            geometry |-> NoGeometry, threw |-> TRUE]
              ELSE \E seed \in Seeds(genParams) :
                     pass' = PassOf(genParams,
                                    ParametricGeometry(genParams,
                                                       radiusCell.value.value,
                                                       verticalCell.value.value,
                                                       NoiseField(seed)))
    /\ prevPass' = pass
    /\ genPasses' = genPasses + 1
    /\ genPc' = "rendered"
    /\ UNCHANGED genParams

\* The store's parameters changed: the component gets the new object.
ChangeProps ==
    /\ genPc = "rendered"
    /\ genPasses < MaxPasses
    /\ \E c \in GenChanges : genParams' = [genParams EXCEPT ![c[1]] = c[2]]
    /\ genPc' = "props"
    /\ UNCHANGED <<genPasses, memoRadius, memoVertical, pass, prevPass>>

\* ------------------------------------------------------------ the store

MaxOps == 2

\* What the control panel's inputs send to setParameter.
SetInputs ==
    {<<"height", Number(50)>>, <<"height", Number(500)>>,
     <<"topDiameter", Number(20)>>, <<"bottomDiameter", Number(200)>>,
     <<"topTabHeight", Number(50)>>, <<"bottomTabHeight", Number(10)>>,
     <<"radialWaveType", String("square")>>, <<"radialFrequency", Number(100)>>,
     <<"radialAmplitude", Number(0)>>, <<"verticalWaveType", String("triangle")>>,
     <<"verticalFrequency", Number(20)>>, <<"verticalAmplitude", Number(50)>>,
     <<"twistAngle", Number(720)>>, <<"twistRate", String("exponential")>>,
     <<"twistDirection", String("counterclockwise")>>,
     <<"surfaceNoiseType", String("perlin")>>, <<"surfaceNoiseScale", Number(5)>>,
     <<"surfaceNoiseAmount", Number(20)>>,
     <<"radialSegments", Number(16)>>, <<"verticalSegments", Number(512)>>,
     <<"radiusFormula", String("r * 2")>>, <<"radiusFormula", String("(r")>>,
     <<"verticalDeformationFormula", String("y + height")>>}

\* What Math.random() returns over one randomizeParameters, in thousandths.
RandomDraws ==
    {<<0, 0, 0, 0, 0, 0, 0, 0>>,
     <<999, 999, 999, 999, 999, 999, 999, 999>>,
     <<500, 250, 750, 100, 900, 333, 667, 42>>}

\* The files a user can import, besides one just exported.
ImportTexts ==
    {JsonText("object", [height |-> NumeralLit(200),
                         radiusFormula |-> StringLit("r * 2")]),
     JsonText("object", [radialSegments |-> NumeralLit(0)]),
     JsonText("object", [height |-> NumeralLit(0),
                         verticalSegments |-> NumeralLit(-1)]),
     JsonText("object", [twistAngle |-> HugeLit]),
     JsonText("object", [color |-> StringLit("red"), height |-> NumeralLit(90)]),
     JsonText("object", [height |-> NullLit]),
     JsonText("null", <<>>),
     JsonText("number", <<>>),
     JsonText("array", [k \in {"0"} |-> NumeralLit(7)]),
     JsonText("string", [k \in {"0"} |-> StringLit("r")]),
     JsonText("invalid", <<>>)}

NoText == JsonText("invalid", <<>>)

NoGeneration == [done |-> FALSE, params |-> DefaultObject]

InitStore ==
    /\ parameters = DefaultObject
    /\ ops = 0
    /\ lastOp = "none"
    /\ before = DefaultObject
    /\ importText = NoText
    /\ importThrew = FALSE
    /\ generated = NoGeneration

IdleStore ==
    /\ parameters = DefaultObject
    /\ ops = MaxOps
    /\ lastOp = "idle"
    /\ before = DefaultObject
    /\ importText = NoText
    /\ importThrew = FALSE
    /\ generated = NoGeneration

SetParameter ==
    /\ ops < MaxOps
    /\ \E kv \in SetInputs : parameters' = setParameter(parameters, kv[1], kv[2])
    /\ lastOp' = "set"
    /\ before' = parameters
    /\ ops' = ops + 1
    /\ UNCHANGED <<importText, importThrew, generated>>

ResetParameters ==
    /\ ops < MaxOps
    /\ parameters' = resetParameters
    /\ lastOp' = "reset"
    /\ before' = parameters
    /\ ops' = ops + 1
    /\ UNCHANGED <<importText, importThrew, generated>>

RandomizeParameters ==
    /\ ops < MaxOps
    /\ \E random \in RandomDraws :
         parameters' = randomizeParameters(parameters, random)
    /\ lastOp' = "randomize"
    /\ before' = parameters
    /\ ops' = ops + 1
    /\ UNCHANGED <<importText, importThrew, generated>>

\* importConfiguration of a file, or of the json exportConfiguration returns now.
ImportConfiguration ==
    /\ ops < MaxOps
    /\ \E config \in ImportTexts \cup {exportConfiguration(parameters)} :
         /\ parameters' = importConfiguration(parameters, config).parameters
         /\ importThrew' = importConfiguration(parameters, config).threw
         /\ importText' = config
    /\ lastOp' = "import"
    /\ before' = parameters
    /\ ops' = ops + 1
    /\ UNCHANGED generated

\* The Vase component renders with the store's parameters and its geometry
\* useMemo starts a generation pass with them.
StartGeneration ==
    /\ lastOp # "idle"
    /\ generated # [done |-> TRUE, params |-> parameters]
    /\ generated' = [done |-> TRUE, params |-> parameters]
    /\ UNCHANGED <<parameters, ops, lastOp, before, importText, importThrew>>

\* ------------------------------------------------------------ the callback, call by call

\* The shapes, waves, twists, noise settings and formulas a row is filled with.
PointShapes == {<<120, 100, 0, 0>>, <<60, 80, 0, 0>>, <<120, 100, 3, 2>>}

PointTwists ==
    {<<0, "linear", "clockwise">>, <<90, "exponential", "counterclockwise">>,
     <<360, "exponential", "clockwise">>, <<360, "linear", "counterclockwise">>}

PointFormulas ==
    {<<"r", "y">>, <<"r * 2", "y == 0 ? q : y">>,
     <<"angle == 0 ? q : r", "y + height">>, <<"r == 1 ? r : q", "y">>}

PointInputs ==
    {[defaultParameters EXCEPT
        !.radialSegments = 4, !.verticalSegments = 2,
        !.bottomDiameter = sh[1], !.topDiameter = sh[2],
        !.radialAmplitude = sh[3], !.verticalAmplitude = sh[4],
        !.radialWaveType = wt, !.verticalWaveType = wt,
        !.radialFrequency = rf,
        !.twistAngle = tw[1], !.twistRate = tw[2], !.twistDirection = tw[3],
        !.surfaceNoiseType = nz[1], !.surfaceNoiseAmount = nz[2],
        !.radiusFormula = fm[1], !.verticalDeformationFormula = fm[2]] :
        sh \in PointShapes, wt \in WaveTypes, rf \in {1, 6},
        tw \in PointTwists, nz \in {<<"none", 0>>, <<"simplex", 4>>},
        fm \in PointFormulas}

\* What noise2D of a fresh createNoise2D() returns at a point: any value of
\* [-1, 1], here -1, 0 or 1.
NoiseSamples(p) == IF p.surfaceNoiseType # "none" THEN {-One, 0, One} ELSE {0}

\* u and v of the call for a column and a row of the grid.
GridU(p, col) == FDiv(Num(col), Num(p.radialSegments))

GridV(p, row) == FDiv(Num(row), Num(p.verticalSegments))

NoResult == [threw |-> FALSE, caught |-> FALSE, radial |-> 0, value |-> <<0, 0, 0>>]

\* No call yet.
NoCall == [sample |-> SurfaceSample(defaultParameters, 0, 0, 0), result |-> NoResult]

\* One call of the callback, from the values it computes before the formulas.
CallOf(s, radiusCode, verticalCode) ==
    [sample |-> s, result |-> EvaluateBoth(s, radiusCode, verticalCode)]

InitPoint ==
    /\ ptParams \in PointInputs
    /\ ptRow \in 0..2
    /\ ptCol = 0
    /\ ptCall = NoCall
    /\ ptFirst = NoCall

IdlePoint ==
    /\ ptParams = defaultParameters
    /\ ptRow = 0
    /\ ptCol = -1
    /\ ptCall = NoCall
    /\ ptFirst = NoCall

\* ParametricGeometry calls the callback for the next column of the row.
CallCallback ==
    /\ ptCol >= 0
    /\ ptCol <= ptParams.radialSegments
    /\ \E noise \in NoiseSamples(ptParams) :
         ptCall' = CallOf(SurfaceSample(ptParams, GridU(ptParams, ptCol),
                                        GridV(ptParams, ptRow), noise),
                          compileFormula(ptParams.radiusFormula, "r").value,
                          compileFormula(ptParams.verticalDeformationFormula, "y").value)
    /\ ptFirst' = IF ptCol = 0 THEN ptCall' ELSE ptFirst
    /\ ptCol' = ptCol + 1
    /\ UNCHANGED <<ptParams, ptRow>>

\* ------------------------------------------------------------ the builder after the base geometry

\* The mesh sizes, tab heights and radius formulas of a builder run.
BuildInputs ==
    {[defaultParameters EXCEPT
        !.radialSegments = rs, !.verticalSegments = vs,
        !.bottomTabHeight = bt, !.topTabHeight = tt, !.radiusFormula = rf] :
        rs \in {0, 3, 4}, vs \in {1, 2}, bt \in {0, 10}, tt \in {0, 5},
        rf \in {"r", "r * 2"}}

\* A geometry whose getIndex() returns null, the case the builder guards
\* against before it extrudes the tabs.
WithoutIndex(g) == [g EXCEPT !.index = <<>>, !.hasIndex = FALSE]

\* The geometry ParametricGeometry builds for the parameters.
BaseGeometry(p) ==
    IF p.radialSegments = 0
    THEN ParametricGeometryNoSlices(p, p.radiusFormula, "y")
    ELSE ParametricGeometry(p, p.radiusFormula, "y", NoiseField(1))

\* The base geometries the builder is run on: the one ParametricGeometry
\* builds, and the same without an index.
BaseGeometries(p) == {BaseGeometry(p), WithoutIndex(BaseGeometry(p))}

InitBuild ==
    /\ bdParams \in BuildInputs
    /\ bdBase \in BaseGeometries(bdParams)
    /\ bdBuilt = NoGeometry
    /\ bdPc = "base"

IdleBuild ==
    /\ bdParams = defaultParameters
    /\ bdBase = NoGeometry
    /\ bdBuilt = NoGeometry
    /\ bdPc = "idle"

\* The geometry useMemo callback from the base geometry to its return.
Build ==
    /\ bdPc = "base"
    /\ bdBuilt' = FinishGeometry(bdParams, bdBase)
    /\ bdPc' = "built"
    /\ UNCHANGED <<bdParams, bdBase>>

\* ------------------------------------------------------------ the control panel

MaxPanelOps == 3

\* The wait of both debounced formula updates, in milliseconds.
DebounceWait == 500

\* The time that passes in one step of the clock, in milliseconds.
TickMs == 250

\* The value of a property an object does not have.
JsUndefined == [type |-> "undefined", num |-> 0, str |-> ""]

\* What a user types into the two formula boxes, and the examples of the
\* radius formula's select box.
RadiusTexts == {"r * 2", "r + 1"}

VerticalTexts == {"y + height"}

RadiusExamples == {"r", "r * (1 + 0.3 * sin(y/height * pi))"}

\* The files a user imports through the panel.
PanelImports ==
    {JsonText("object", [radiusFormula |-> StringLit("r * 2"),
                         verticalDeformationFormula |-> StringLit("y")]),
     JsonText("object", [height |-> NumeralLit(200)]),
     JsonText("null", <<>>),
     JsonText("string", [k \in {"0"} |-> StringLit("r")]),
     JsonText("invalid", <<>>)}

\* What Math.random() returns over the panel's randomizeParameters.
PanelDraws == {<<500, 250, 750, 100, 900, 333, 667, 42>>}

\* A debounced function with no call pending.
NoTimer == [pending |-> FALSE, left |-> 0, arg |-> ""]

\* A debounced function that keeps the argument of the first call of a burst
\* and does not restart its wait.
DebouncedFirst(timer, formula) ==
    IF timer.pending THEN timer
    ELSE [pending |-> TRUE, left |-> DebounceWait, arg |-> formula]

\* debounce(f, 500) called with formula: the wait restarts and the call that
\* is made when it ends carries the latest argument.
Debounced(timer, formula) ==
    [pending |-> TRUE, left |-> DebounceWait, arg |-> formula]

\* The wait of a pending call after one step of the clock.
Elapse(timer) ==
    IF timer.pending THEN [timer EXCEPT !.left = timer.left - TickMs] ELSE timer

\* importedConfig[key] of the value JSON.parse returned.
ImportedField(parsed, key) ==
    IF key \in DOMAIN parsed.props THEN parsed.props[key] ELSE JsUndefined

\* No reset or import has overtaken a pending update.
NothingKept == [active |-> FALSE, radius |-> JsUndefined, vertical |-> JsUndefined]

\* The formulas a reset or import has just set, remembered when it ran while
\* a debounced update was pending.
KeptAfter(params) ==
    IF cpRadiusTimer.pending \/ cpVerticalTimer.pending
    THEN [active |-> TRUE, radius |-> params.radiusFormula,
          vertical |-> params.verticalDeformationFormula]
    ELSE NothingKept

\* The panel as it mounts on a new store: useState(parameters.radiusFormula).
InitPanel ==
    /\ cpParameters = DefaultObject
    /\ cpLocalRadius = DefaultObject.radiusFormula
    /\ cpLocalVertical = DefaultObject.verticalDeformationFormula
    /\ cpRadiusTimer = NoTimer
    /\ cpVerticalTimer = NoTimer
    /\ cpOps = 0
    /\ cpTyped = [radius |-> "", vertical |-> "", radiusBurst |-> 0, verticalBurst |-> 0]
    /\ cpCalls = [radius |-> 0, vertical |-> 0]
    /\ cpKept = NothingKept

IdlePanel ==
    /\ cpParameters = DefaultObject
    /\ cpLocalRadius = DefaultObject.radiusFormula
    /\ cpLocalVertical = DefaultObject.verticalDeformationFormula
    /\ cpRadiusTimer = NoTimer
    /\ cpVerticalTimer = NoTimer
    /\ cpOps = -1
    /\ cpTyped = [radius |-> "", vertical |-> "", radiusBurst |-> 0, verticalBurst |-> 0]
    /\ cpCalls = [radius |-> 0, vertical |-> 0]
    /\ cpKept = NothingKept

\* An edit of the radius formula: setLocalRadiusFormula, then the debounced
\* update.
EditRadius(formula) ==
    /\ cpLocalRadius' = String(formula)
    /\ cpRadiusTimer' = Debounced(cpRadiusTimer, formula)
    /\ cpTyped' = [cpTyped EXCEPT !.radius = formula,
                                  !.radiusBurst = IF cpRadiusTimer.pending THEN @ + 1 ELSE 1]
    /\ cpCalls' = [cpCalls EXCEPT !.radius = IF cpRadiusTimer.pending THEN @ ELSE 0]
    /\ cpKept' = NothingKept
    /\ cpOps' = cpOps + 1
    /\ UNCHANGED <<cpParameters, cpLocalVertical, cpVerticalTimer>>

\* onChange of the radius formula's textarea.
TypeRadiusFormula ==
    /\ cpOps >= 0 /\ cpOps < MaxPanelOps
    /\ \E formula \in RadiusTexts : EditRadius(formula)

\* handleRadiusFormulaSelect.
SelectRadiusExample ==
    /\ cpOps >= 0 /\ cpOps < MaxPanelOps
    /\ \E formula \in RadiusExamples : EditRadius(formula)

\* onChange of the vertical formula's textarea.
TypeVerticalFormula ==
    /\ cpOps >= 0 /\ cpOps < MaxPanelOps
    /\ \E formula \in VerticalTexts :
         /\ cpLocalVertical' = String(formula)
         /\ cpVerticalTimer' = Debounced(cpVerticalTimer, formula)
         /\ cpTyped' = [cpTyped EXCEPT
                           !.vertical = formula,
                           !.verticalBurst = IF cpVerticalTimer.pending THEN @ + 1 ELSE 1]
    /\ cpCalls' = [cpCalls EXCEPT !.vertical = IF cpVerticalTimer.pending THEN @ ELSE 0]
    /\ cpKept' = NothingKept
    /\ cpOps' = cpOps + 1
    /\ UNCHANGED <<cpParameters, cpLocalRadius, cpRadiusTimer>>

\* The wait of the radius update has ended: setParameter("radiusFormula", formula).
FireRadiusUpdate ==
    /\ cpRadiusTimer.pending /\ cpRadiusTimer.left <= 0
    /\ cpParameters' =
         setParameter(cpParameters, "radiusFormula", String(cpRadiusTimer.arg))
    /\ cpRadiusTimer' = NoTimer
    /\ cpCalls' = [cpCalls EXCEPT !.radius = @ + 1]
    /\ UNCHANGED <<cpLocalRadius, cpLocalVertical, cpVerticalTimer, cpOps, cpTyped,
                   cpKept>>

\* The wait of the vertical update has ended.
FireVerticalUpdate ==
    /\ cpVerticalTimer.pending /\ cpVerticalTimer.left <= 0
    /\ cpParameters' =
         setParameter(cpParameters, "verticalDeformationFormula",
                      String(cpVerticalTimer.arg))
    /\ cpVerticalTimer' = NoTimer
    /\ cpCalls' = [cpCalls EXCEPT !.vertical = @ + 1]
    /\ UNCHANGED <<cpLocalRadius, cpLocalVertical, cpRadiusTimer, cpOps, cpTyped,
                   cpKept>>

\* Time passes while a call is pending; a wait that has ended fires first.
Tick ==
    /\ cpRadiusTimer.pending \/ cpVerticalTimer.pending
    /\ cpRadiusTimer.pending => cpRadiusTimer.left > 0
    /\ cpVerticalTimer.pending => cpVerticalTimer.left > 0
    /\ cpRadiusTimer' = Elapse(cpRadiusTimer)
    /\ cpVerticalTimer' = Elapse(cpVerticalTimer)
    /\ UNCHANGED <<cpParameters, cpLocalRadius, cpLocalVertical, cpOps, cpTyped,
                   cpCalls, cpKept>>

\* The Reset button: onClick={resetParameters}.
ClickReset ==
    /\ cpOps >= 0 /\ cpOps < MaxPanelOps
    /\ cpParameters' = resetParameters
    /\ cpKept' = KeptAfter(resetParameters)
    /\ cpOps' = cpOps + 1
    /\ UNCHANGED <<cpLocalRadius, cpLocalVertical, cpRadiusTimer, cpVerticalTimer,
                   cpTyped, cpCalls>>

\* The Randomize button: onClick={randomizeParameters}.
ClickRandomize ==
    /\ cpOps >= 0 /\ cpOps < MaxPanelOps
    /\ \E random \in PanelDraws :
         cpParameters' = randomizeParameters(cpParameters, random)
    /\ cpOps' = cpOps + 1
    /\ UNCHANGED <<cpLocalRadius, cpLocalVertical, cpRadiusTimer, cpVerticalTimer,
                   cpTyped, cpCalls, cpKept>>

\* reader.onload of handleImport: importConfiguration(config), then the
\* local formula texts from JSON.parse(config); a throw of JSON.parse or of
\* the property read on null leaves the try block.
HandleImport ==
    /\ cpOps >= 0 /\ cpOps < MaxPanelOps
    /\ \E config \in PanelImports \cup {exportConfiguration(cpParameters)} :
         /\ cpParameters' = importConfiguration(cpParameters, config).parameters
         /\ cpKept' = IF JSONparse(config).threw THEN cpKept
                      ELSE KeptAfter(importConfiguration(cpParameters, config).parameters)
         /\ IF JSONparse(config).threw \/ JSONparse(config).isNull
            THEN UNCHANGED <<cpLocalRadius, cpLocalVertical>>
            ELSE /\ cpLocalRadius' = ImportedField(JSONparse(config), "radiusFormula")
                 /\ cpLocalVertical' =
                      ImportedField(JSONparse(config), "verticalDeformationFormula")
    /\ cpOps' = cpOps + 1
    /\ UNCHANGED <<cpRadiusTimer, cpVerticalTimer, cpTyped, cpCalls>>

\* ------------------------------------------------------------ specifications

NextWave == EvalWave /\ UNCHANGED <<genVars, storeVars, ptVars, bdVars, cpVars>>

WaveStart == InitWave /\ IdleGen /\ IdleStore /\ IdlePoint /\ IdleBuild /\ IdlePanel

SpecWave == WaveStart /\ [][NextWave]_vars

NextGen ==
    \/ RenderVase /\ UNCHANGED <<waveVars, storeVars, ptVars, bdVars, cpVars>>
    \/ ChangeProps /\ UNCHANGED <<waveVars, storeVars, ptVars, bdVars, cpVars>>

GenStart == InitGen /\ IdleWave /\ IdleStore /\ IdlePoint /\ IdleBuild /\ IdlePanel

SpecGen == GenStart /\ [][NextGen]_vars

NextPoint == CallCallback /\ UNCHANGED <<waveVars, genVars, storeVars, bdVars, cpVars>>

PointStart == InitPoint /\ IdleWave /\ IdleGen /\ IdleStore /\ IdleBuild /\ IdlePanel

SpecPoint == PointStart /\ [][NextPoint]_vars

NextBuild == Build /\ UNCHANGED <<waveVars, genVars, storeVars, ptVars, cpVars>>

BuildStart == InitBuild /\ IdleWave /\ IdleGen /\ IdleStore /\ IdlePoint /\ IdlePanel

SpecBuild == BuildStart /\ [][NextBuild]_vars

NextPanel ==
    \/ TypeRadiusFormula /\ UNCHANGED <<waveVars, genVars, storeVars, ptVars, bdVars>>
    \/ SelectRadiusExample /\ UNCHANGED <<waveVars, genVars, storeVars, ptVars, bdVars>>
    \/ TypeVerticalFormula /\ UNCHANGED <<waveVars, genVars, storeVars, ptVars, bdVars>>
    \/ FireRadiusUpdate /\ UNCHANGED <<waveVars, genVars, storeVars, ptVars, bdVars>>
    \/ FireVerticalUpdate /\ UNCHANGED <<waveVars, genVars, storeVars, ptVars, bdVars>>
    \/ Tick /\ UNCHANGED <<waveVars, genVars, storeVars, ptVars, bdVars>>
    \/ ClickReset /\ UNCHANGED <<waveVars, genVars, storeVars, ptVars, bdVars>>
    \/ ClickRandomize /\ UNCHANGED <<waveVars, genVars, storeVars, ptVars, bdVars>>
    \/ HandleImport /\ UNCHANGED <<waveVars, genVars, storeVars, ptVars, bdVars>>

PanelStart == InitPanel /\ IdleWave /\ IdleGen /\ IdleStore /\ IdlePoint /\ IdleBuild

SpecPanel == PanelStart /\ [][NextPanel]_vars

\* Time passes and a wait that has ended makes its call.
PanelFairness ==
    /\ WF_vars(Tick /\ UNCHANGED <<waveVars, genVars, storeVars, ptVars, bdVars>>)
    /\ WF_vars(FireRadiusUpdate /\ UNCHANGED <<waveVars, genVars, storeVars, ptVars, bdVars>>)
    /\ WF_vars(FireVerticalUpdate /\ UNCHANGED <<waveVars, genVars, storeVars, ptVars, bdVars>>)

SpecPanelLive == PanelStart /\ [][NextPanel]_vars /\ PanelFairness

Next ==
    \/ SetParameter /\ UNCHANGED <<waveVars, genVars, ptVars, bdVars, cpVars>>
    \/ ResetParameters /\ UNCHANGED <<waveVars, genVars, ptVars, bdVars, cpVars>>
    \/ RandomizeParameters /\ UNCHANGED <<waveVars, genVars, ptVars, bdVars, cpVars>>
    \/ ImportConfiguration /\ UNCHANGED <<waveVars, genVars, ptVars, bdVars, cpVars>>
    \/ StartGeneration /\ UNCHANGED <<waveVars, genVars, ptVars, bdVars, cpVars>>

Init == InitStore /\ IdleWave /\ IdleGen /\ IdlePoint /\ IdleBuild /\ IdlePanel

Spec == Init /\ [][Next]_vars

\* ------------------------------------------------------------ properties

\* The vertices of the grid and the index entries of its body triangles.
GridVertexCount(p) == (p.radialSegments + 1) * (p.verticalSegments + 1)

GridIndexCount(p) == 6 * p.radialSegments * p.verticalSegments

\* The number of enabled tabs.
TabCount(p) ==
    (IF p.bottomTabHeight > 0 THEN 1 ELSE 0) + (IF p.topTabHeight > 0 THEN 1 ELSE 0)

\* C1: whatever the formulas and wherever their evaluation throws, a
\* generation pass completes without an exception and returns a mesh holding
\* a position (three coordinates) for every one of the
\* (radialSegments+1)*(verticalSegments+1) grid vertices and the
\* 2*radialSegments*verticalSegments body triangles.
C1_GenerationCompletes ==
    pass.done =>
        /\ ~pass.threw
        /\ ~pass.geometry.threw
        /\ Len(pass.parametricGeometry.position) = GridVertexCount(pass.params)
        /\ Len(pass.parametricGeometry.index) = GridIndexCount(pass.params)
        /\ Len(pass.geometry.position) >= GridVertexCount(pass.params)
        /\ Len(pass.geometry.index) >= GridIndexCount(pass.params)
        /\ \A k \in 1..GridVertexCount(pass.params) :
             Len(pass.geometry.position[k]) = 3
        /\ \A n \in 1..GridIndexCount(pass.params) :
             pass.geometry.index[n] \in 0..(GridVertexCount(pass.params) - 1)

\* A completed pass in which evaluation threw at some grid points and not at
\* others.
C1_Witness ==
    /\ pass.done
    /\ ~pass.threw
    /\ pass.geometry.caught > 0
    /\ pass.geometry.caught < GridVertexCount(pass.params)
    /\ Len(pass.geometry.position) >= GridVertexCount(pass.params)

\* The source text fails validation against the test scope.
FailsValidation(formula) == Evaluate(formula, TestScope).threw

\* Two parameter sets equal but for the radius formula, invalid in the first
\* and the default "r" in the second.
RadiusFormulaDefaulted(p, q) ==
    /\ FailsValidation(p.radiusFormula)
    /\ q = [p EXCEPT !.radiusFormula = "r"]

\* Two parameter sets equal but for the vertical formula, invalid in the
\* first and the default "y" in the second.
VerticalFormulaDefaulted(p, q) ==
    /\ FailsValidation(p.verticalDeformationFormula)
    /\ q = [p EXCEPT !.verticalDeformationFormula = "y"]

\* C2: a source that fails validation never makes compileFormula raise, and
\* the mesh generated with it is identical to the mesh generated with the
\* default formula in its place, all other parameters being equal.
C2_InvalidSourceGivesDefaultMesh ==
    /\ pass.done /\ (FailsValidation(pass.params.radiusFormula)
                       \/ FailsValidation(pass.params.verticalDeformationFormula))
         => ~pass.threw
    /\ pass.done /\ prevPass.done
         /\ (\/ RadiusFormulaDefaulted(prevPass.params, pass.params)
             \/ VerticalFormulaDefaulted(prevPass.params, pass.params))
         => /\ pass.geometry.position = prevPass.geometry.position
            /\ pass.geometry.index = prevPass.geometry.index

\* C3: for each of the four waveform kinds and every input angle the output
\* lies in the closed interval [-1, 1].
C3_WaveInRange ==
    wavePc = "done" =>
        /\ -One <= waveAt /\ waveAt <= One
        /\ -One <= waveAhead /\ waveAhead <= One

\* The floating tolerance of the waveform comparison: the waveforms' values
\* are rounded to a sixteenth or coarser, half a unit is far above that.
Tolerance == One \div 2

\* C4: for each of the four waveform kinds and every input x, positive, zero
\* or negative, f(x) = f(x + 2 pi) within floating tolerance.
C4_WavePeriodic ==
    wavePc = "done" => Abs(waveAt - waveAhead) <= Tolerance

\* C5: tab extrusion is append-only with exact counts: each enabled tab adds
\* exactly radialSegments+1 vertices and 2*radialSegments triangles, and the
\* original positions and index triples are an unchanged prefix of the new
\* buffers.
C5_TabsAppendOnly ==
    pass.done /\ ~pass.threw =>
        /\ Len(pass.geometry.position) =
             Len(pass.parametricGeometry.position)
               + TabCount(pass.params) * (pass.params.radialSegments + 1)
        /\ Len(pass.geometry.index) =
             Len(pass.parametricGeometry.index)
               + TabCount(pass.params) * 6 * pass.params.radialSegments
        /\ SubSeq(pass.geometry.position, 1, Len(pass.parametricGeometry.position))
             = pass.parametricGeometry.position
        /\ SubSeq(pass.geometry.index, 1, Len(pass.parametricGeometry.index))
             = pass.parametricGeometry.index

\* A pass with the bottom tab only: radialSegments+1 vertices and
\* 2*radialSegments triangles more than the grid's.
C5_Witness ==
    /\ pass.done
    /\ ~pass.threw
    /\ pass.params.bottomTabHeight > 0
    /\ pass.params.topTabHeight = 0
    /\ Len(pass.geometry.position) =
         GridVertexCount(pass.params) + pass.params.radialSegments + 1
    /\ Len(pass.geometry.index) =
         GridIndexCount(pass.params) + 6 * pass.params.radialSegments

\* C6: passing the json of exportConfiguration to importConfiguration leaves
\* the store with a parameter set equal field by field to the one exported,
\* for every parameter set reachable in the store.
C6_RoundTrip ==
    lastOp = "import" /\ importText = exportConfiguration(before)
        => parameters = before

\* The text decodes: JSON.parse returns.
Decodable(text) == ~JSONparse(text).threw

\* The VaseParameters fields the decoded configuration holds.
ConfiguredKeys(text) ==
    IF text.syntax = "object" THEN DOMAIN text.members \cap VaseKeys ELSE {}

\* C7: importConfiguration of a decodable configuration is never rejected
\* because of unknown or missing fields: afterwards every VaseParameters
\* field present in the configuration has the configured value and every
\* missing one has its value from defaultParameters, not the value the store
\* held before.
C7_ImportFillsFromDefaults ==
    lastOp = "import" /\ Decodable(importText) =>
        /\ ~importThrew
        /\ \A k \in VaseKeys :
             /\ k \in DOMAIN parameters
             /\ parameters[k] =
                  IF k \in ConfiguredKeys(importText)
                  THEN ValueOf(importText.members[k])
                  ELSE DefaultObject[k]

\* An import of a configuration with an unknown field, a configured field
\* and a missing field whose value in the store was not the default.
C7_Witness ==
    /\ lastOp = "import"
    /\ Decodable(importText)
    /\ importText.syntax = "object"
    /\ DOMAIN importText.members \ VaseKeys # {}
    /\ ConfiguredKeys(importText) # {}
    /\ \E k \in VaseKeys \ ConfiguredKeys(importText) :
         /\ before[k] # DefaultObject[k]
         /\ parameters[k] = DefaultObject[k]

\* C8: when importConfiguration is given text that cannot be decoded, the
\* store's parameters after the call are exactly those before the call.
C8_FailedImportKeepsStore ==
    lastOp = "import" /\ ~Decodable(importText) => parameters = before

\* An import of undecodable text into a store that does not hold the defaults.
C8_Witness ==
    /\ lastOp = "import"
    /\ ~Decodable(importText)
    /\ before # DefaultObject
    /\ parameters = before

\* C9: when importConfiguration is given text that cannot be decoded, the
\* decode error is reported to its caller.
C9_DecodeErrorReported ==
    lastOp = "import" /\ ~Decodable(importText) => importThrew

\* The structural parameters are not degenerate.
Structural(params) ==
    /\ IsFinite(params.radialSegments) /\ params.radialSegments.num >= 3
    /\ IsFinite(params.verticalSegments) /\ params.verticalSegments.num >= 1
    /\ IsFinite(params.height) /\ params.height.num > 0
    /\ IsFinite(params.topDiameter) /\ params.topDiameter.num > 0
    /\ IsFinite(params.bottomDiameter) /\ params.bottomDiameter.num > 0

\* C10: after any sequence of store operations no generation pass starts
\* with degenerate structural parameters: radialSegments >= 3,
\* verticalSegments >= 1, height > 0 and both diameters > 0.
C10_NoDegenerateGeneration ==
    generated.done => Structural(generated.params)

\* The latest callback call was for this column of the row.
CalledColumn == ptCol - 1

\* No wave, no noise, no twist, and both formulas the identity.
PlainShape(p) ==
    /\ p.radialAmplitude = 0
    /\ p.verticalAmplitude = 0
    /\ p.surfaceNoiseType = "none"
    /\ p.twistAngle = 0
    /\ p.radiusFormula = "r"
    /\ p.verticalDeformationFormula = "y"

\* The position is the point of the circle of this radius about the height
\* axis at this angle: its x and z are the radius times the cosine and the
\* sine, and its distance from the axis is the radius up to the rounding of
\* the two products (a sixteenth of the radius covers it).
OnCircle(position, radius, angle) ==
    /\ position[1] = FMul(radius, MathCos(angle))
    /\ position[3] = FMul(radius, MathSin(angle))
    /\ 256 * (position[1] * position[1] + position[3] * position[3])
         >= (15 * radius) * (15 * radius)
    /\ 256 * (position[1] * position[1] + position[3] * position[3])
         <= (17 * radius) * (17 * radius)

\* C11: with radialAmplitude, verticalAmplitude, noise and twistAngle zero
\* and both formulas the identity, every vertex of the ring at v = 0 lies at
\* radius exactly bottomDiameter / 2 and every vertex of the ring at v = 1
\* at radius exactly topDiameter / 2, for every sampled angle index.
C11_RingRadii ==
    ptCol >= 1 /\ PlainShape(ptParams) =>
        /\ ptRow = 0 =>
             /\ ptCall.sample.radius = FDiv(Num(ptParams.bottomDiameter), Two)
             /\ ~ptCall.result.caught
             /\ OnCircle(ptCall.result.value,
                         FDiv(Num(ptParams.bottomDiameter), Two),
                         FMul(FMul(GridU(ptParams, CalledColumn), MathPI), Two))
        /\ ptRow = ptParams.verticalSegments =>
             /\ ptCall.sample.radius = FDiv(Num(ptParams.topDiameter), Two)
             /\ ~ptCall.result.caught
             /\ OnCircle(ptCall.result.value,
                         FDiv(Num(ptParams.topDiameter), Two),
                         FMul(FMul(GridU(ptParams, CalledColumn), MathPI), Two))

\* The top ring of a plain shape whose diameters differ, at a vertex that is
\* neither on the x axis nor on the z axis.
C11_Witness ==
    /\ ptCol = 2
    /\ PlainShape(ptParams)
    /\ ptRow = ptParams.verticalSegments
    /\ ptParams.topDiameter # ptParams.bottomDiameter
    /\ ptCall.sample.radius = FDiv(Num(ptParams.topDiameter), Two)
    /\ ptCall.result.value[3] # 0

\* C12: for every twistAngle and twistDirection, with twistRate linear the
\* twistAmount at heightFactor 0 is 0, with twistRate exponential the
\* twistAmount at heightFactor 1 is twistAngle, and on the bottom ring the
\* twisted angle equals the untwisted angle for both rates.
C12_TwistEnds ==
    ptCol >= 1 =>
        /\ ptParams.twistRate = "linear" /\ ptRow = 0
             => ptCall.sample.twistAmount = 0
        /\ ptParams.twistRate = "exponential" /\ ptRow = ptParams.verticalSegments
             => ptCall.sample.twistAmount = Num(ptParams.twistAngle)
        /\ ptRow = 0 => ptCall.sample.twistedAngle = ptCall.sample.angle

\* A call on the bottom ring, away from angle 0, with a counterclockwise
\* exponential twist of 90 degrees.
C12_Witness ==
    /\ ptCol = 3
    /\ ptRow = 0
    /\ ptParams.twistAngle = 90
    /\ ptParams.twistRate = "exponential"
    /\ ptParams.twistDirection = "counterclockwise"
    /\ ptCall.sample.angle = MathPI
    /\ ptCall.sample.twistedAngle = MathPI

\* C13: when evaluation of either formula throws at a grid point, the
\* point's position is computed from the pre-formula radius (base radius plus
\* radial wave term) and verticalOffset only, with no formula result applied,
\* also when the radius formula returned and only the vertical formula threw.
C13_FallbackIgnoresFormulas ==
    ptCol >= 1 /\ ptCall.result.caught =>
        ptCall.result.value =
            <<FMul(ptCall.sample.radius, MathCos(ptCall.sample.twistedAngle)),
              FAdd(ptCall.sample.base, ptCall.sample.verticalOffset),
              FMul(ptCall.sample.radius, MathSin(ptCall.sample.twistedAngle))>>

\* C14: at every grid point the scope passed to both formulas binds height
\* to the full height parameter and y to height * heightFactor, and the
\* vertex's final Y is height * heightFactor + verticalDef + verticalOffset.
C14_FullHeightScope ==
    ptCol >= 1 =>
        /\ Scope(ptCall.sample).height = Num(ptParams.height)
        /\ Scope(ptCall.sample).y =
             FMul(Num(ptParams.height), ptCall.sample.heightFactor)
        /\ ~ptCall.result.caught =>
             ptCall.result.value[2] =
                 FAdd(FAdd(FMul(Num(ptParams.height), ptCall.sample.heightFactor),
                           Evaluate(compileFormula(ptParams.verticalDeformationFormula,
                                                   "y").value,
                                    Scope(ptCall.sample)).value),
                      ptCall.sample.verticalOffset)

\* Neither formula reads the angle.
AngleFree(p) ==
    /\ p.radiusFormula \in {"r", "r * 2", "r == 1 ? r : q"}
    /\ p.verticalDeformationFormula \in {"y", "y + height", "y == 0 ? q : y"}

\* The floating tolerance of a radius at the seam: the tolerance of the
\* waveform, scaled by the amplitude and by the factor 2 of "r * 2".
SeamTolerance(p) == 2 * p.radialAmplitude * Tolerance

\* C15: the seam is closed: for every row and every parameter set whose
\* formulas do not depend on the angle, the vertex generated at u = 1 has the
\* position of the vertex generated at u = 0: the same height, the same
\* distance from the axis within floating tolerance, and an angle exactly one
\* full turn further.
C15_SeamClosed ==
    ptCol = ptParams.radialSegments + 1 /\ AngleFree(ptParams) =>
        /\ ptCall.result.value[2] = ptFirst.result.value[2]
        /\ Abs(ptCall.result.radial - ptFirst.result.radial) <= SeamTolerance(ptParams)
        /\ ptCall.sample.twistedAngle = FAdd(ptFirst.sample.twistedAngle, TwoPi)

\* The edges of the triangles of an index buffer, each in the direction its
\* triangle traverses it.
DirectedEdges(index) ==
    {<<index[3 * t + e + 1], index[3 * t + ((e + 1) % 3) + 1]>> :
        t \in 0..((Len(index) \div 3) - 1), e \in 0..2}

\* No two triangles traverse an edge in the same direction: every directed
\* edge occurs once.
ConsistentWinding(index) == Cardinality(DirectedEdges(index)) = Len(index)

\* C16: triangle winding is consistent over the whole final index buffer:
\* with either tab enabled, every edge shared by two triangles is traversed
\* in opposite directions by them, in particular each ring edge shared by a
\* body triangle and a tab-wall triangle.
C16_ConsistentWinding ==
    pass.done /\ ~pass.threw /\ TabCount(pass.params) > 0 =>
        ConsistentWinding(pass.geometry.index)

\* The vertex (counted from 0) is the original vertex `source` moved by dy
\* along the height axis, as stored in single precision.
Translated(g, vertex, original, source, dy) ==
    g.position[vertex + 1] =
        <<original.position[source + 1][1],
          Fround(FAdd(original.position[source + 1][2], dy)),
          original.position[source + 1][3]>>

\* Where the top tab's vertices start in the final buffer.
TopTabStart(p) ==
    GridVertexCount(p) + (IF p.bottomTabHeight > 0 THEN p.radialSegments + 1 ELSE 0)

\* C17: tab rings are straight translations of the right source ring: the
\* appended bottom-tab vertex k has the x and z of original vertex k and its
\* y minus bottomTabHeight; the appended top-tab vertex k has the x and z of
\* original vertex verticalSegments*(radialSegments+1)+k and its y plus
\* topTabHeight, also when both tabs are enabled, and the top tab's faces
\* reference the top ring and the appended top vertices only.
C17_TabsTranslateSourceRings ==
    pass.done /\ ~pass.threw =>
        /\ pass.params.bottomTabHeight > 0 =>
             \A k \in 0..pass.params.radialSegments :
                 Translated(pass.geometry, GridVertexCount(pass.params) + k,
                            pass.parametricGeometry, k,
                            -Num(pass.params.bottomTabHeight))
        /\ pass.params.topTabHeight > 0 =>
             /\ \A k \in 0..pass.params.radialSegments :
                    Translated(pass.geometry, TopTabStart(pass.params) + k,
                               pass.parametricGeometry,
                               pass.params.verticalSegments
                                 * (pass.params.radialSegments + 1) + k,
                               Num(pass.params.topTabHeight))
             /\ \A n \in (Len(pass.geometry.index) - 6 * pass.params.radialSegments + 1)
                           ..Len(pass.geometry.index) :
                    LET top == pass.params.verticalSegments
                                 * (pass.params.radialSegments + 1)
                    IN  pass.geometry.index[n] \in
                          (top..(top + pass.params.radialSegments))
                            \cup (TopTabStart(pass.params)
                                    ..(TopTabStart(pass.params)
                                         + pass.params.radialSegments))

\* A pass with both tabs enabled, the top tab's vertices after the bottom
\* tab's, and the base geometry more than one row high.
C17_Witness ==
    /\ pass.done
    /\ ~pass.threw
    /\ pass.params.bottomTabHeight > 0
    /\ pass.params.topTabHeight > 0
    /\ pass.params.verticalSegments = 2
    /\ Len(pass.geometry.position) =
         TopTabStart(pass.params) + pass.params.radialSegments + 1
    /\ Translated(pass.geometry, TopTabStart(pass.params), pass.parametricGeometry,
                  2 * (pass.params.radialSegments + 1),
                  Num(pass.params.topTabHeight))

Fresh(memo, formula, defaultValue) ==
    /\ memo.filled
    /\ memo.dep = formula
    /\ memo.value = compileFormula(formula, defaultValue)

\* After a render both cells are compiled from the current strings and the
\* pass has built its base geometry with executables compiled from them.
CacheCoherent ==
    genPc = "rendered" =>
        /\ pass.params = genParams
        /\ Fresh(memoRadius, genParams.radiusFormula, "r")
        /\ Fresh(memoVertical, genParams.verticalDeformationFormula, "y")
        /\ ~pass.threw
        /\ \E seed \in Seeds(genParams) :
             pass.parametricGeometry =
                 ParametricGeometry(genParams,
                     compileFormula(genParams.radiusFormula, "r").value,
                     compileFormula(genParams.verticalDeformationFormula, "y").value,
                     NoiseField(seed))

\* The compileFormula calls a step makes for a cell: one when the step is a
\* render and the cell's string is new, none otherwise.
CompilesWhenChanged(memo, memoAfter, formula) ==
    memoAfter.compiles =
        memo.compiles
          + (IF genPasses' = genPasses + 1 /\ (~memo.filled \/ memo.dep # formula)
             THEN 1 ELSE 0)

\* Every parameter change is followed by a render that generates anew.
RendersAfterChange ==
    genPc = "props" /\ genPc' # "props" =>
        /\ genPasses' = genPasses + 1
        /\ pass'.done
        /\ pass'.params = genParams
        /\ prevPass' = pass

\* C19: the compiled-formula cache is coherent over any sequence of parameter
\* changes: each formula is recompiled exactly when its own source string
\* changes, every generation pass uses executables compiled from the current
\* strings, and a change to another parameter gives a new generation without
\* recompiling either formula.
C19_CacheCoherent ==
    /\ []CacheCoherent
    /\ [][/\ CompilesWhenChanged(memoRadius, memoRadius', genParams.radiusFormula)
          /\ CompilesWhenChanged(memoVertical, memoVertical',
                                 genParams.verticalDeformationFormula)
          /\ RendersAfterChange]_vars

\* A second pass after a change of the radius formula alone: the radius
\* formula was compiled twice, the vertical formula once.
C19_Witness ==
    /\ genPc = "rendered"
    /\ genPasses = 2
    /\ pass.params.radiusFormula = "r * 2"
    /\ prevPass.params.radiusFormula # "r * 2"
    /\ memoRadius.compiles = 2
    /\ memoVertical.compiles = 1
    /\ memoRadius.value = Returned("r * 2")

\* The last two passes ran with the identical VaseParameters value.
SameParameters == pass.done /\ prevPass.done /\ pass.params = prevPass.params

\* C20: two generation passes run with the identical VaseParameters value
\* produce identical vertex positions and indices, whatever the
\* surfaceNoiseType and surfaceNoiseAmount.
C20_GenerationIsPure ==
    SameParameters =>
        /\ pass.geometry.position = prevPass.geometry.position
        /\ pass.geometry.index = prevPass.geometry.index

\* The formula texts that use only the variables the control panel lists
\* for the radius formula (r, y, height, angle, pi, topRadius, bottomRadius).
UsesListedVariablesOnly ==
    {"r", "y", "r * 2", "y + height", "topRadius"}

\* C21: a radius formula that uses only the variables the control panel
\* lists (topRadius among them) finds them all bound in the validation scope:
\* it is compiled as written, not replaced by the fallback "r".
C21_ListedVariablesBound ==
    genPc = "rendered" /\ genParams.radiusFormula \in UsesListedVariablesOnly
        => memoRadius.value = Returned(genParams.radiusFormula)

\* x mod 2 pi, exactly: the representative of x in [0, 2 pi).
ModTwoPi(x) == x % TwoPi

\* C22: the square waveform takes only the values +1 and -1, never 0, at
\* every input, 0 and the multiples of pi included: +1 when x mod 2 pi lies
\* in [0, pi), -1 otherwise.
C22_SquareTwoValued ==
    wavePc = "done" /\ waveType = "square" =>
        /\ waveAt \in {One, -One}
        /\ waveAt = One <=> ModTwoPi(waveX) < MathPI

\* Every index names a vertex of the position buffer.
IndicesInRange(g) ==
    \A n \in 1..Len(g.index) : g.index[n] >= 0 /\ g.index[n] < Len(g.position)

\* Every vertex from `first` on (counted from 0) is a corner of a triangle.
ReferencedFrom(g, first) ==
    \A k \in first..(Len(g.position) - 1) :
        \E n \in 1..Len(g.index) : g.index[n] = k

\* C23: for every radialSegments, verticalSegments and every combination of
\* tabs, every index of the final buffer is >= 0 and below the number of
\* vertices, the index count is a multiple of 3, and every appended tab
\* vertex is referenced by at least one triangle.
C23_IndicesValid ==
    bdPc = "built" =>
        /\ IndicesInRange(bdBuilt)
        /\ Len(bdBuilt.index) % 3 = 0
        /\ ReferencedFrom(bdBuilt, Len(bdBase.position))

\* C24: with surfaceNoiseType none, the position assigned to a grid point
\* whose formula evaluation throws equals the position the same grid point
\* gets when both formulas are the defaults "r" and "y".
C24_FallbackIsDefaultShape ==
    /\ CalledColumn >= 0
    /\ ptParams.surfaceNoiseType = "none"
    /\ ptCall.result.caught
    => ptCall.result.value = EvaluateBoth(ptCall.sample, "r", "y").value

\* C28: setParameter(key, value) sets exactly the field key to value and
\* leaves every other field of the store's parameters unchanged, and
\* resetParameters yields the default parameter set after any history.
C28_SetParameterFrame ==
    /\ lastOp = "set" =>
         \E kv \in SetInputs :
            /\ DOMAIN parameters = DOMAIN before \cup {kv[1]}
            /\ parameters[kv[1]] = kv[2]
            /\ \A k \in DOMAIN before \ {kv[1]} : parameters[k] = before[k]
    /\ lastOp = "reset" => parameters = DefaultObject

\* A setParameter on a store that did not hold the defaults, which changed
\* one field and kept a field that differs from its default.
C28_Witness ==
    /\ lastOp = "set"
    /\ parameters # before
    /\ \E k \in DOMAIN before :
         before[k] # DefaultObject[k] /\ parameters[k] = before[k]

\* The fields randomizeParameters draws, with their inclusive ranges.
RandomRanges ==
    [height |-> <<100, 150>>, topDiameter |-> <<40, 120>>,
     bottomDiameter |-> <<60, 140>>, radialFrequency |-> <<3, 8>>,
     radialAmplitude |-> <<5, 20>>, verticalFrequency |-> <<2, 6>>,
     verticalAmplitude |-> <<3, 15>>, twistAngle |-> <<0, 360>>]

\* C29: randomizeParameters changes only height, topDiameter,
\* bottomDiameter, radialFrequency, radialAmplitude, verticalFrequency,
\* verticalAmplitude and twistAngle, each to an integer within its inclusive
\* range, and leaves every other field unchanged.
C29_RandomizeFrame ==
    lastOp = "randomize" =>
        /\ DOMAIN parameters = DOMAIN before \cup DOMAIN RandomRanges
        /\ \A k \in DOMAIN RandomRanges :
             /\ IsFinite(parameters[k])
             /\ parameters[k].num \in RandomRanges[k][1]..RandomRanges[k][2]
        /\ \A k \in DOMAIN before \ DOMAIN RandomRanges :
             parameters[k] = before[k]

\* A randomize that drew the upper end of a range on a store whose other
\* fields were not all at their defaults.
C29_Witness ==
    /\ lastOp = "randomize"
    /\ parameters.height = Number(150)
    /\ parameters.twistAngle = Number(360)
    /\ \E k \in DOMAIN before \ DOMAIN RandomRanges :
         before[k] # DefaultObject[k] /\ parameters[k] = before[k]

\* C30: after any sequence of store operations, an import of any decodable
\* text included, the store's parameters object has exactly the fields
\* declared by VaseParameters.
C30_ExactlyDeclaredFields ==
    DOMAIN parameters = VaseKeys

\* The store holds these two formulas.
StoreFormulas(radius, vertical) ==
    /\ cpParameters.radiusFormula = radius
    /\ cpParameters.verticalDeformationFormula = vertical

\* C25: when resetParameters or importConfiguration is applied while a
\* debounced formula update is pending, the store's formulas are still the
\* values the reset or import set after the timer has fired, until the user
\* makes a new formula edit.
C25_ResetNotUndone ==
    cpKept.active => StoreFormulas(cpKept.radius, cpKept.vertical)

\* C26: whenever no debounced update is pending, the formula texts shown in
\* the control panel equal the store's formulas, after any sequence of
\* typing, example selection, Reset, Randomize and Import.
C26_LocalTextsMatchStore ==
    ~cpRadiusTimer.pending /\ ~cpVerticalTimer.pending
        => StoreFormulas(cpLocalRadius, cpLocalVertical)

\* A burst that is still running has made no setParameter call, a burst
\* that is over has made exactly one.
OneCallPerBurst ==
    /\ cpTyped.radiusBurst > 0 =>
         cpCalls.radius = IF cpRadiusTimer.pending THEN 0 ELSE 1
    /\ cpTyped.verticalBurst > 0 =>
         cpCalls.vertical = IF cpVerticalTimer.pending THEN 0 ELSE 1

\* A setParameter call of a debounced update comes when the wait since the
\* latest edit has ended, carries the text of that edit, and sets that
\* field alone.
CallCarriesLastText ==
    /\ cpCalls'.radius = cpCalls.radius + 1 =>
         /\ cpRadiusTimer.left <= 0
         /\ cpParameters' =
              setParameter(cpParameters, "radiusFormula", String(cpTyped.radius))
    /\ cpCalls'.vertical = cpCalls.vertical + 1 =>
         /\ cpVerticalTimer.left <= 0
         /\ cpParameters' =
              setParameter(cpParameters, "verticalDeformationFormula",
                           String(cpTyped.vertical))

\* An edit of one formula leaves the pending update of the other alone.
EditsIndependent ==
    /\ cpOps' # cpOps /\ cpRadiusTimer' # cpRadiusTimer
         => cpVerticalTimer' = cpVerticalTimer
    /\ cpOps' # cpOps /\ cpVerticalTimer' # cpVerticalTimer
         => cpRadiusTimer' = cpRadiusTimer

\* If no other operation intervenes, the store's formula eventually equals
\* the last typed text.
EventuallyStored ==
    \A n \in 0..MaxPanelOps :
        /\ \A formula \in RadiusTexts \cup RadiusExamples :
             (cpRadiusTimer.pending /\ cpTyped.radius = formula /\ cpOps = n)
                 ~> (cpParameters.radiusFormula = String(formula) \/ cpOps # n)
        /\ \A formula \in VerticalTexts :
             (cpVerticalTimer.pending /\ cpTyped.vertical = formula /\ cpOps = n)
                 ~> (cpParameters.verticalDeformationFormula = String(formula)
                     \/ cpOps # n)

\* C27: formula edits are debounced per formula: a burst of edits to one
\* field, each less than 500 ms after the previous, causes exactly one
\* setParameter call for that field, carrying the last typed text; if no
\* other operation intervenes the store's formula eventually equals that
\* text; and edits to one formula never delay or cancel a pending update of
\* the other.
C27_DebouncedPerFormula ==
    /\ []OneCallPerBurst
    /\ [][CallCarriesLastText /\ EditsIndependent]_vars
    /\ EventuallyStored

\* A burst of two radius edits has ended in its one call, which stored the
\* later text, while an update of the vertical formula is still pending.
C27_Witness ==
    /\ cpTyped.radiusBurst = 2
    /\ ~cpRadiusTimer.pending
    /\ cpCalls.radius = 1
    /\ cpParameters.radiusFormula = String(cpTyped.radius)
    /\ cpVerticalTimer.pending
    /\ cpCalls.vertical = 0

====
